---- MODULE Spec2Model ----
(***************************************************************************)
(* id57: the base57 codec and the identifier generator of src/lib.rs.      *)
(*                                                                         *)
(* Representation.  A u128 is a sequence of U128Limbs limbs of LimbBits    *)
(* bits each, most significant limb first, so that the full 128-bit range  *)
(* and its overflow are modelled with machine integers that stay small.    *)
(* A string is the sequence of its characters, each character its Unicode  *)
(* code point; a byte string is the sequence of its bytes.                 *)
(* A Python int is a sign and a magnitude of any number of limbs.          *)
(***************************************************************************)
EXTENDS Integers, Sequences, FiniteSets, TLC

\* pending: the calls a caller is about to make; done: the calls made, each
\* with what it returned; DECODE_TABLE: the process-wide decode table
VARIABLES pending, done, DECODE_TABLE

vars == <<pending, done, DECODE_TABLE>>

-----------------------------------------------------------------------------
(* Constants of lib.rs                                                     *)

\* b"23456789ABCDEFGHJKLMNPQRSTUVWXYZabcdefghijkmnopqrstuvwxyz"
ALPHABET ==
  << 50, 51, 52, 53, 54, 55, 56, 57,
     65, 66, 67, 68, 69, 70, 71, 72, 74, 75, 76, 77, 78,
     80, 81, 82, 83, 84, 85, 86, 87, 88, 89, 90,
     97, 98, 99, 100, 101, 102, 103, 104, 105, 106, 107,
     109, 110, 111, 112, 113, 114, 115, 116, 117, 118, 119, 120, 121, 122 >>

BASE == 57

TIMESTAMP_WIDTH == 11

UUID_WIDTH == 22

IDENTIFIER_WIDTH == TIMESTAMP_WIDTH + UUID_WIDTH

INVALID == 255

-----------------------------------------------------------------------------
(* Option<T> and PyResult<T>                                               *)

None == [some |-> FALSE]

Some(x) == [some |-> TRUE, v |-> x]

Ok(x) == [kind |-> "Ok", val |-> x]

IsOk(r) == r.kind = "Ok"

PyValueError(m) == [kind |-> "ValueError", msg |-> m]

PyOverflowError == [kind |-> "OverflowError"]

PyTypeError == [kind |-> "TypeError"]

PyRuntimeError == [kind |-> "RuntimeError"]

\* format!("Invalid base57 character: {ch:?} at position {index}")
InvalidCharacterError(ch, index) ==
  [kind |-> "ValueError", msg |-> "Invalid base57 character",
   ch |-> ch, position |-> index]

-----------------------------------------------------------------------------
(* u128 arithmetic on limbs                                                *)

LimbBits == 16

LimbBase == 2^LimbBits

U128Limbs == 128 \div LimbBits

Zeros(n) == [i \in 1..n |-> 0]

\* `n as u128` for a machine integer 0 <= n < 2^31
U128From(n) ==
  [i \in 1..U128Limbs |->
     IF i = U128Limbs THEN n % LimbBase
     ELSE IF i = U128Limbs - 1 THEN n \div LimbBase
     ELSE 0]

IsZero(x) == \A i \in 1..Len(x) : x[i] = 0

RECURSIVE DivRemLoop(_, _, _, _, _)
DivRemLoop(x, d, i, rem, quot) ==
  IF i > Len(x) THEN [quot |-> quot, rem |-> rem]
  ELSE LET cur == rem * LimbBase + x[i]
       IN  DivRemLoop(x, d, i + 1, cur % d, Append(quot, cur \div d))

\* value / d and value % d for a small divisor d
U128DivRem(x, d) == DivRemLoop(x, d, 1, 0, <<>>)

RECURSIVE MulLoop(_, _, _, _, _)
MulLoop(x, m, i, carry, acc) ==
  IF i = 0 THEN [carry |-> carry, limbs |-> acc]
  ELSE LET cur == x[i] * m + carry
       IN  MulLoop(x, m, i - 1, cur \div LimbBase, <<cur % LimbBase>> \o acc)

\* u128::checked_mul by a small factor m: None when the product needs more
\* than 128 bits
checked_mul(x, m) ==
  LET r == MulLoop(x, m, Len(x), 0, <<>>)
  IN  IF r.carry = 0 THEN Some(r.limbs) ELSE None

RECURSIVE AddLoop(_, _, _, _, _)
AddLoop(x, y, i, carry, acc) ==
  IF i = 0 THEN [carry |-> carry, limbs |-> acc]
  ELSE LET cur == x[i] + y[i] + carry
       IN  AddLoop(x, y, i - 1, cur \div LimbBase, <<cur % LimbBase>> \o acc)

\* u128::checked_add
checked_add(x, y) ==
  LET r == AddLoop(x, y, Len(x), 0, <<>>)
  IN  IF r.carry = 0 THEN Some(r.limbs) ELSE None

-----------------------------------------------------------------------------
(* Decode table                                                            *)

RECURSIVE build_decode_table_loop(_, _)
build_decode_table_loop(table, i) ==
  IF i < Len(ALPHABET)
  THEN build_decode_table_loop([table EXCEPT ![ALPHABET[i + 1]] = i], i + 1)
  ELSE table

\* build_decode_table with the loop stopping one entry early
build_decode_table_short ==
  [b \in 0..255 |->
     IF \E i \in 1..(Len(ALPHABET) - 1) : ALPHABET[i] = b
     THEN (CHOOSE i \in 1..(Len(ALPHABET) - 1) : ALPHABET[i] = b) - 1
     ELSE INVALID]

build_decode_table == build_decode_table_loop([b \in 0..255 |-> INVALID], 0)

-----------------------------------------------------------------------------
(* Encoding                                                                *)

Reverse(s) == [i \in 1..Len(s) |-> s[Len(s) + 1 - i]]

Repeat(c, n) == [i \in 1..n |-> c]

RECURSIVE encode_loop(_, _)
encode_loop(value, buf) ==
  IF ~IsZero(value)
  THEN LET qr == U128DivRem(value, BASE)
       IN  encode_loop(qr.quot, Append(buf, ALPHABET[qr.rem + 1]))
  ELSE buf

\* encode_base57_raw with buf.reverse() left out
encode_base57_raw_unreversed(value) ==
  IF IsZero(value) THEN <<ALPHABET[1]>>
  ELSE encode_loop(value, <<>>)

\* encode_base57_raw without the early return for zero
encode_base57_raw_nozero(value) == Reverse(encode_loop(value, <<>>))

encode_base57_raw(value) ==
  IF IsZero(value) THEN <<ALPHABET[1]>>
  ELSE Reverse(encode_loop(value, <<>>))

\* encode_base57 cutting the digits down to the width when they are wider
encode_base57_truncating(value, pad_to) ==
  LET digits == encode_base57_raw(value)
  IN  IF pad_to.some /\ pad_to.v > Len(digits)
      THEN Repeat(ALPHABET[1], pad_to.v - Len(digits)) \o digits
      ELSE IF pad_to.some
           THEN SubSeq(digits, Len(digits) - pad_to.v + 1, Len(digits))
           ELSE digits

encode_base57(value, pad_to) ==
  LET digits == encode_base57_raw(value)
  IN  IF pad_to.some /\ pad_to.v > Len(digits)
      THEN Repeat(ALPHABET[1], pad_to.v - Len(digits)) \o digits
      ELSE digits

-----------------------------------------------------------------------------
(* Decoding                                                                *)

\* is_ascii with the check left out
is_ascii_unchecked(ch) == TRUE

is_ascii(ch) == ch < 128

\* `ch as u8`: the low eight bits of the code point
as_u8(ch) == ch % 256

\* char::len_utf8
len_utf8(ch) ==
  IF ch < 128 THEN 1 ELSE IF ch < 2048 THEN 2 ELSE IF ch < 65536 THEN 3 ELSE 4

\* accumulate with wrapping_mul and wrapping_add in place of the checked ones
accumulate_wrapping(result, digit) ==
  Some(AddLoop(MulLoop(result, BASE, Len(result), 0, <<>>).limbs,
               U128From(digit), Len(result), 0, <<>>).limbs)

\* result.checked_mul(BASE).and_then(|acc| acc.checked_add(digit as u128))
accumulate(result, digit) ==
  LET acc == checked_mul(result, BASE)
  IN  IF acc.some THEN checked_add(acc.v, U128From(digit)) ELSE None

\* One iteration per character; index is the character's byte offset, as
\* str::char_indices yields it.
RECURSIVE decode_loop(_, _, _, _)
decode_loop(value, k, index, result) ==
  IF k > Len(value) THEN Ok(result)
  ELSE LET ch == value[k]
       IN  IF ~is_ascii(ch) THEN InvalidCharacterError(ch, index)
           ELSE LET digit == DECODE_TABLE[as_u8(ch)]
                IN  IF digit = INVALID THEN InvalidCharacterError(ch, index)
                    ELSE LET next == accumulate(result, digit)
                         IN  IF ~next.some
                             THEN PyValueError("Decoded value overflowed u128")
                             ELSE decode_loop(value, k + 1,
                                              index + len_utf8(ch), next.v)

decode_base57(value) ==
  IF Len(value) = 0 THEN PyValueError("Value cannot be empty")
  ELSE decode_loop(value, 1, 0, Zeros(U128Limbs))

-----------------------------------------------------------------------------
(* Python values crossing the binding                                      *)

\* A Python int: sign and magnitude (limbs, most significant first).
PyInt(neg, mag) == [neg |-> neg, mag |-> mag]

\* value.lt(0)
py_lt0(v) == v.neg

RECURSIVE StripZeros(_)
StripZeros(x) ==
  IF Len(x) > 0 /\ x[1] = 0 THEN StripZeros(Tail(x)) ELSE x

\* value.extract::<u128>() of a Python int: OverflowError outside 0..2^128-1
extract_u128(v) ==
  LET m == StripZeros(v.mag)
  IN  IF v.neg \/ Len(m) > U128Limbs THEN PyOverflowError
      ELSE Ok(Zeros(U128Limbs - Len(m)) \o m)

\* A Python object as extract_uuid sees it: whether it is an int (PyLong),
\* and what __index__ and __int__ return when it has them.
PyLong(v) == [is_long |-> TRUE, value |-> v, index |-> Some(v), int |-> Some(v)]

\* e.g. uuid.UUID, float: __int__ only
IntLike(v) == [is_long |-> FALSE, index |-> None, int |-> Some(v)]

\* e.g. a numpy integer: __index__ and __int__
IndexLike(v) == [is_long |-> FALSE, index |-> Some(v), int |-> Some(v)]

\* e.g. a str: neither
Opaque == [is_long |-> FALSE, index |-> None, int |-> None]

\* any.extract::<u128>() of an arbitrary object goes through __index__
extract_u128_any(obj) ==
  IF obj.index.some THEN extract_u128(obj.index.v) ELSE PyTypeError

-----------------------------------------------------------------------------
(* The exposed functions                                                   *)

\* base57_encode without the sign check
base57_encode_unchecked(value, pad_to) ==
  LET number == extract_u128(value)
  IN  IF ~IsOk(number) THEN number
      ELSE Ok(encode_base57(number.val, pad_to))

base57_encode(value, pad_to) ==
  IF py_lt0(value) THEN PyValueError("Value must be non-negative")
  ELSE LET number == extract_u128(value)
       IN  IF ~IsOk(number) THEN number
           ELSE Ok(encode_base57(number.val, pad_to))

decode57(value) == decode_base57(value)

\* rnd: the value Uuid::new_v4().as_u128() returns when it is called
extract_uuid(uuid, rnd) ==
  IF ~uuid.some THEN Ok(rnd)
  ELSE LET any == uuid.v
       IN  IF any.is_long
           THEN IF py_lt0(any.value)
                THEN PyValueError("uuid must be non-negative")
                ELSE extract_u128(any.value)
           ELSE IF IsOk(extract_u128_any(any)) THEN extract_u128_any(any)
           ELSE IF any.int.some
                THEN IF py_lt0(any.int.v)
                     THEN PyValueError("uuid must be non-negative")
                     ELSE extract_u128(any.int.v)
           ELSE PyValueError("uuid must be an int or expose an __int__ method")

\* x * 1_000_000, in two steps so that limb products stay machine integers;
\* secs is a u64, so the product cannot leave 128 bits
MulMillion(x) == MulLoop(MulLoop(x, 1000, Len(x), 0, <<>>).limbs,
                         1000, Len(x), 0, <<>>).limbs

\* clock: what SystemTime::now().duration_since(UNIX_EPOCH) returns when it
\* is called: an error, or a duration (secs: u64 in limbs, nanos: u32)
extract_timestamp(timestamp, clock) ==
  IF timestamp.some
  THEN IF py_lt0(timestamp.v)
       THEN PyValueError("timestamp must be non-negative")
       ELSE extract_u128(timestamp.v)
  ELSE IF ~clock.ok THEN PyRuntimeError
       ELSE Ok(AddLoop(MulMillion(clock.secs),
                       U128From(clock.subsec_nanos \div 1000),
                       U128Limbs, 0, <<>>).limbs)

\* generate_id57 encoding the timestamp without a padding width
generate_id57_unpadded_ts(timestamp, uuid, clock, rnd) ==
  LET ts_value == extract_timestamp(timestamp, clock)
  IN  IF ~IsOk(ts_value) THEN ts_value
      ELSE LET uuid_value == extract_uuid(uuid, rnd)
           IN  IF ~IsOk(uuid_value) THEN uuid_value
               ELSE Ok(encode_base57(ts_value.val, None)
                       \o encode_base57(uuid_value.val, Some(UUID_WIDTH)))

\* generate_id57 pushing the payload segment before the timestamp segment
generate_id57_payload_first(timestamp, uuid, clock, rnd) ==
  LET ts_value == extract_timestamp(timestamp, clock)
  IN  IF ~IsOk(ts_value) THEN ts_value
      ELSE LET uuid_value == extract_uuid(uuid, rnd)
           IN  IF ~IsOk(uuid_value) THEN uuid_value
               ELSE Ok(encode_base57(uuid_value.val, Some(UUID_WIDTH))
                       \o encode_base57(ts_value.val, Some(TIMESTAMP_WIDTH)))

\* generate_id57 with the two widths exchanged
generate_id57_swapped_widths(timestamp, uuid, clock, rnd) ==
  LET ts_value == extract_timestamp(timestamp, clock)
  IN  IF ~IsOk(ts_value) THEN ts_value
      ELSE LET uuid_value == extract_uuid(uuid, rnd)
           IN  IF ~IsOk(uuid_value) THEN uuid_value
               ELSE Ok(encode_base57(ts_value.val, Some(UUID_WIDTH))
                       \o encode_base57(uuid_value.val, Some(TIMESTAMP_WIDTH)))

generate_id57(timestamp, uuid, clock, rnd) ==
  LET ts_value == extract_timestamp(timestamp, clock)
  IN  IF ~IsOk(ts_value) THEN ts_value
      ELSE LET uuid_value == extract_uuid(uuid, rnd)
           IN  IF ~IsOk(uuid_value) THEN uuid_value
               ELSE LET ts_part == encode_base57(ts_value.val, Some(TIMESTAMP_WIDTH))
                        uuid_part == encode_base57(uuid_value.val, Some(UUID_WIDTH))
                    IN  Ok(ts_part \o uuid_part)

-----------------------------------------------------------------------------
(* Input values                                                            *)

\* 0
V_0 == <<0, 0, 0, 0, 0, 0, 0, 0>>

\* 1
V_1 == <<0, 0, 0, 0, 0, 0, 0, 1>>

\* 56
V_56 == <<0, 0, 0, 0, 0, 0, 0, 56>>

\* 57
V_57 == <<0, 0, 0, 0, 0, 0, 0, 57>>

\* 58
V_58 == <<0, 0, 0, 0, 0, 0, 0, 58>>

\* 57^2 - 1
V_3248 == <<0, 0, 0, 0, 0, 0, 0, 3248>>

\* 57^2
V_3249 == <<0, 0, 0, 0, 0, 0, 0, 3249>>

\* 2^16 - 1
V_65535 == <<0, 0, 0, 0, 0, 0, 0, 65535>>

\* 2^16
V_65536 == <<0, 0, 0, 0, 0, 0, 1, 0>>

\* 1793286000123456: microseconds since the epoch, late 2026
V_Now == <<0, 0, 0, 0, 6, 24315, 61188, 40512>>

\* 2^64 - 1
V_2p64m1 == <<0, 0, 0, 0, 65535, 65535, 65535, 65535>>

\* 2^64
V_2p64 == <<0, 0, 0, 1, 0, 0, 0, 0>>

\* 57^11 - 1 = 20635899893042801192, the largest 11-digit value
V_57p11m1 == <<0, 0, 0, 1, 7777, 29086, 31062, 27176>>

\* 57^11, the smallest 12-digit value
V_57p11 == <<0, 0, 0, 1, 7777, 29086, 31062, 27177>>

\* 57^11 + 1
V_57p11p1 == <<0, 0, 0, 1, 7777, 29086, 31062, 27178>>

\* 57^12
V_57p12 == <<0, 0, 0, 63, 50098, 19529, 1085, 41761>>

\* the version-4 UUID 00000000-0000-4000-8000-000000000000
V_UuidLow == <<0, 0, 0, 16384, 32768, 0, 0, 0>>

\* the version-4 UUID 3f2b8c1e-9d4a-4c7b-9e1f-0a2b3c4d5e6f
V_Uuid == <<16171, 35870, 40266, 19579, 40479, 2603, 15437, 24175>>

\* the version-4 UUID ffffffff-ffff-4fff-bfff-ffffffffffff
V_UuidHigh == <<65535, 65535, 65535, 20479, 49151, 65535, 65535, 65535>>

\* 57^21 - 1, the largest 21-digit value
V_57p21m1 == <<1438, 55039, 53336, 11865, 26843, 60982, 32487, 40216>>

\* 57^21, the smallest 22-digit value
V_57p21 == <<1438, 55039, 53336, 11865, 26843, 60982, 32487, 40217>>

\* 2^127
V_2p127 == <<32768, 0, 0, 0, 0, 0, 0, 0>>

\* 2^128 - 2
V_2p128m2 == <<65535, 65535, 65535, 65535, 65535, 65535, 65535, 65534>>

\* 2^128 - 1
V_2p128m1 == <<65535, 65535, 65535, 65535, 65535, 65535, 65535, 65535>>

\* 2^128: one more than a u128 holds
V_2p128 == <<1, 0, 0, 0, 0, 0, 0, 0, 0>>

\* 2^128 + 57
V_2p128p57 == <<1, 0, 0, 0, 0, 0, 0, 0, 57>>

\* "oZEq7ovRbLq6UnGMPwc8B5": the encoding of 2^128 - 1
S_Max == <<111, 90, 69, 113, 55, 111, 118, 82, 98, 76, 113, 54, 85, 110, 71, 77, 80, 119, 99, 56, 66, 53>>

\* "J7LoyauAk": the encoding of 1793286000123456
S_Now == <<74, 55, 76, 111, 121, 97, 117, 65, 107>>

\* "32222222222222222222222": 57^22, the smallest 23-digit value, above 2^128 - 1
S_57p22 == <<51, 50, 50, 50, 50, 50, 50, 50, 50, 50, 50, 50, 50, 50, 50, 50, 50, 50, 50, 50, 50, 50, 50>>

-----------------------------------------------------------------------------
(* Bounds and the calls a caller makes                                     *)

\* the largest pad_to passed to base57_encode
MaxPad == 24

\* the largest number of zero digits put in front of a string given to decode57
MaxLeadingZeros == 2

NatMags ==
  { V_0, V_1, V_56, V_57, V_58, V_3248, V_3249, V_65535, V_65536, V_Now,
    V_2p64m1, V_2p64, V_57p11m1, V_57p11, V_57p11p1, V_57p12,
    V_UuidLow, V_Uuid, V_UuidHigh, V_57p21m1, V_57p21,
    V_2p127, V_2p128m2, V_2p128m1 }

PyInts ==
  { PyInt(FALSE, m) : m \in NatMags \cup {V_2p128, V_2p128p57} }
  \cup { PyInt(TRUE, m) : m \in {V_1, V_57, V_2p64, V_2p128m1, V_2p128} }

Pads == {None} \cup { Some(w) : w \in 0..MaxPad }

EncodeCalls ==
  { [op |-> "base57_encode", value |-> v, pad_to |-> p] : v \in PyInts, p \in Pads }

\* S_Max with one digit replaced: the values around 2^128 - 1
AroundMax ==
  { [S_Max EXCEPT ![i] = ALPHABET[d]] : i \in 1..Len(S_Max), d \in 1..Len(ALPHABET) }

AlphabetStrings ==
  { <<50>>, <<51>>, <<122>>, <<51, 50>>, <<122, 122>>, <<50, 122>>,
    S_Now, S_57p22, S_Max \o <<50>>,
    Repeat(122, 21), Repeat(122, 22), Repeat(122, 23) }
  \cup AroundMax

ValidPrefixes == { <<>>, <<50>>, <<109, 122>>, S_Now, S_Max, Repeat(122, 23) }

\* '0' 'O' '1' 'I' 'l' ' ' NUL DEL '@' '[' U+00E9 U+0132 U+20AC U+10032 U+1F600
BadChars == { 48, 79, 49, 73, 108, 32, 0, 127, 64, 91, 233, 306, 8364, 65586, 128512 }

Suffixes == { <<>>, <<50>>, <<233, 48>>, <<48, 233>> }

DecodeInputs ==
  { <<>> }
  \cup { Repeat(ALPHABET[1], k) \o a : k \in 0..MaxLeadingZeros, a \in AlphabetStrings }
  \cup { p \o <<c>> \o x : p \in ValidPrefixes, c \in BadChars, x \in Suffixes }

DecodeCalls == { [op |-> "decode57", value |-> x] : x \in DecodeInputs }

Timestamps ==
  { None }
  \cup { Some(PyInt(FALSE, m)) :
           m \in {V_0, V_1, V_Now, V_57p11m1, V_57p11, V_2p128m1, V_2p128} }
  \cup { Some(PyInt(TRUE, V_1)) }

Payloads ==
  { None, Some(Opaque) }
  \cup { Some(PyLong(PyInt(FALSE, m))) : m \in {V_0, V_Uuid, V_2p128m1, V_2p128} }
  \cup { Some(PyLong(PyInt(TRUE, V_1))),
         Some(IntLike(PyInt(FALSE, V_UuidHigh))), Some(IntLike(PyInt(TRUE, V_57))),
         Some(IndexLike(PyInt(FALSE, V_57p21))), Some(IndexLike(PyInt(TRUE, V_1))) }

GenerateCalls ==
  { [op |-> "generate_id57", timestamp |-> t, uuid |-> u] :
      t \in Timestamps, u \in Payloads }

\* What the system clock can answer when it is read.
ClockReadings ==
  { [ok |-> FALSE] }
  \cup { [ok |-> TRUE, secs |-> x, subsec_nanos |-> n] :
           x \in {V_0, U128From(1793286000)}, n \in {0, 999, 123456789, 999999999} }

\* What Uuid::new_v4().as_u128() can return when it is called.
RandomUuids == { V_UuidLow, V_Uuid, V_UuidHigh }

NotRead == [ok |-> FALSE]

\* The clock is read only when no timestamp is supplied, and only then does
\* its answer matter.
ClockFor(call) == IF call.timestamp.some THEN {NotRead} ELSE ClockReadings

NotCalled == V_0

\* A random UUID is made only when the timestamp was obtained and no payload
\* is supplied.
RandomFor(call, clock) ==
  IF call.uuid.some \/ ~IsOk(extract_timestamp(call.timestamp, clock))
  THEN {NotCalled}
  ELSE RandomUuids

\* The generate calls made as the second of two
SecondGenerateCalls ==
  { [op |-> "generate_id57", timestamp |-> t, uuid |-> u] :
      t \in Timestamps,
      u \in { None, Some(PyLong(PyInt(FALSE, V_0))),
              Some(PyLong(PyInt(FALSE, V_2p128m1))) } }

\* A caller makes one codec call, or two generate calls one after the other.
Scripts ==
  { <<c>> : c \in EncodeCalls \cup DecodeCalls }
  \cup { <<g, h>> : g \in GenerateCalls, h \in SecondGenerateCalls }

-----------------------------------------------------------------------------
(* The state machine: calls waiting to be made, and calls made with what   *)
(* each returned.                                                          *)

\* The table is built once, before any call.
Init ==
  /\ pending \in Scripts
  /\ done = <<>>
  /\ DECODE_TABLE = build_decode_table

\* A call returns: it leaves the waiting calls and is logged with its result.
Returned(entry) ==
  /\ done' = Append(done, entry)
  /\ pending' = Tail(pending)
  /\ UNCHANGED DECODE_TABLE

Base57Encode ==
  /\ pending # <<>>
  /\ Head(pending).op = "base57_encode"
  /\ LET call == Head(pending)
     IN  Returned([call |-> call, ret |-> base57_encode(call.value, call.pad_to)])

Decode57 ==
  /\ pending # <<>>
  /\ Head(pending).op = "decode57"
  /\ LET call == Head(pending)
     IN  Returned([call |-> call, ret |-> decode57(call.value)])

GenerateId57 ==
  /\ pending # <<>>
  /\ Head(pending).op = "generate_id57"
  /\ LET call == Head(pending)
     IN  \E clock \in ClockFor(call) : \E rnd \in RandomFor(call, clock) :
           Returned([call |-> call, clock |-> clock, rnd |-> rnd,
                     ret |-> generate_id57(call.timestamp, call.uuid, clock, rnd)])

Next == Base57Encode \/ Decode57 \/ GenerateId57

Spec == Init /\ [][Next]_vars

-----------------------------------------------------------------------------
(* Properties: what they are stated with                                   *)

EncodeCallsDone == { i \in 1..Len(done) : done[i].call.op = "base57_encode" }

DecodeCallsDone == { i \in 1..Len(done) : done[i].call.op = "decode57" }

GenerateCallsDone == { i \in 1..Len(done) : done[i].call.op = "generate_id57" }

ZeroDigit == 50

InAlphabet(ch) == \E i \in 1..Len(ALPHABET) : ALPHABET[i] = ch

DigitValue(ch) == (CHOOSE i \in 1..Len(ALPHABET) : ALPHABET[i] = ch) - 1

\* A natural number of any size: its bytes, least significant first, none
\* when it is zero and the last one never zero.
RECURSIVE NatMulAdd(_, _, _)
NatMulAdd(n, m, c) ==
  IF n = <<>>
  THEN IF c = 0 THEN <<>> ELSE <<c % 256>> \o NatMulAdd(<<>>, m, c \div 256)
  ELSE LET cur == n[1] * m + c
       IN  <<cur % 256>> \o NatMulAdd(Tail(n), m, cur \div 256)

\* The number a string of alphabet characters denotes in radix 57, most
\* significant digit first.
RECURSIVE PositionalValue(_)
PositionalValue(str) ==
  IF str = <<>> THEN <<>>
  ELSE NatMulAdd(PositionalValue(SubSeq(str, 1, Len(str) - 1)), 57,
                 DigitValue(str[Len(str)]))

FitsU128(n) == Len(n) <= 16

NatByte(n, k) == IF k <= Len(n) THEN n[k] ELSE 0

\* The u128 holding a natural number below 2^128
NatToU128(n) ==
  [i \in 1..U128Limbs |->
     NatByte(n, 2 * (U128Limbs - i) + 2) * 256 + NatByte(n, 2 * (U128Limbs - i) + 1)]

U128Less(x, y) ==
  \E i \in 1..U128Limbs : x[i] < y[i] /\ \A j \in 1..(i - 1) : x[j] = y[j]

\* Lexicographic, byte-wise order of strings
StrLess(a, b) ==
  \E k \in 1..Len(b) :
    /\ k - 1 <= Len(a)
    /\ \A j \in 1..(k - 1) : a[j] = b[j]
    /\ (k = Len(a) + 1 \/ a[k] < b[k])

Max(a, b) == IF a >= b THEN a ELSE b

IsNegativeValue(r) ==
  /\ r.kind = "ValueError"
  /\ r.msg \in { "Value must be non-negative", "timestamp must be non-negative",
                 "uuid must be non-negative" }

IsOverflow(r) == r = PyValueError("Decoded value overflowed u128")

-----------------------------------------------------------------------------
(* Properties                                                              *)

\* C1: round trip.  Whenever base57_encode returns a string for a value v,
\* with no pad_to or with any pad_to, narrower or wider than v's digits,
\* decoding that string succeeds and returns exactly v.
C1_RoundTrip ==
  \A i \in EncodeCallsDone :
    IsOk(done[i].ret) =>
      decode_base57(done[i].ret.val) = extract_u128(done[i].call.value)

\* A 22-digit value encoded with a wider pad_to has been returned.
C1_Witness ==
  \E i \in EncodeCallsDone :
    /\ done[i].call.value = PyInt(FALSE, V_2p128m1)
    /\ done[i].call.pad_to = Some(24)
    /\ IsOk(done[i].ret)
    /\ Len(done[i].ret.val) = 24

\* C6: padding never truncates.  base57_encode(v, pad_to = w) is the
\* unpadded encoding of v preceded by max(0, w - n) zero digits, n being the
\* length of the unpadded encoding; its length is max(w, n), and it is the
\* unpadded encoding itself when w <= n.
C6_PaddingNeverTruncates ==
  \A i \in EncodeCallsDone :
    (IsOk(done[i].ret) /\ done[i].call.pad_to.some) =>
      LET w == done[i].call.pad_to.v
          plain == base57_encode(done[i].call.value, None).val
          n == Len(plain)
      IN  /\ Len(done[i].ret.val) = Max(w, n)
          /\ done[i].ret.val = Repeat(ZeroDigit, Max(0, w - n)) \o plain
          /\ w <= n => done[i].ret.val = plain

\* 2^128 - 1 encoded with pad_to = 5 has returned all its 22 digits.
C6_Witness ==
  \E i \in EncodeCallsDone :
    /\ done[i].call.value = PyInt(FALSE, V_2p128m1)
    /\ done[i].call.pad_to = Some(5)
    /\ done[i].ret = Ok(S_Max)

\* C7: canonical encoding.  With no padding, base57_encode(0) is "2"; for
\* v > 0 the result is not empty, does not start with the zero digit, is made
\* of alphabet characters and denotes v in radix 57; base57_encode(57) is "32".
C7_CanonicalEncoding ==
  \A i \in EncodeCallsDone :
    (IsOk(done[i].ret) /\ ~done[i].call.pad_to.some) =>
      LET v == extract_u128(done[i].call.value).val
          str == done[i].ret.val
      IN  /\ IsZero(v) => str = <<ZeroDigit>>
          /\ ~IsZero(v) =>
               /\ Len(str) > 0
               /\ str[1] # ZeroDigit
               /\ \A k \in 1..Len(str) : InAlphabet(str[k])
               /\ FitsU128(PositionalValue(str))
               /\ NatToU128(PositionalValue(str)) = v
          /\ v = V_57 => str = <<51, 50>>

\* base57_encode(57) has returned "32".
C7_Witness ==
  \E i \in EncodeCallsDone :
    /\ done[i].call = [op |-> "base57_encode", value |-> PyInt(FALSE, V_57),
                       pad_to |-> None]
    /\ done[i].ret = Ok(<<51, 50>>)

\* C4: decode overflow.  For a non-empty string of alphabet characters, with
\* any number of leading zero digits, decode57 returns the number the string
\* denotes in radix 57 when that number is at most 2^128 - 1, and fails with
\* the overflow error when it is larger; it never returns a wrapped value.
C4_DecodeOverflow ==
  \A i \in DecodeCallsDone :
    LET str == done[i].call.value
    IN  (Len(str) > 0 /\ \A k \in 1..Len(str) : InAlphabet(str[k])) =>
          LET n == PositionalValue(str)
          IN  IF FitsU128(n) THEN done[i].ret = Ok(NatToU128(n))
              ELSE IsOverflow(done[i].ret)

\* "22oZEq7ovRbLq6UnGMPwc8B6", which denotes 2^128, has been refused.
C4_Witness ==
  \E i \in DecodeCallsDone :
    /\ done[i].call.value = <<50, 50>> \o [S_Max EXCEPT ![22] = 54]
    /\ IsOverflow(done[i].ret)

\* The place of the first character of str that is not in the alphabet
\* (0 when there is none)
FirstInvalid(str) ==
  IF \A k \in 1..Len(str) : InAlphabet(str[k]) THEN 0
  ELSE CHOOSE k \in 1..Len(str) :
         /\ ~InAlphabet(str[k])
         /\ \A j \in 1..(k - 1) : InAlphabet(str[j])

\* C5: invalid character reporting.  When decode57 reaches a character that
\* is not ASCII or not in the alphabet (the digits before it not overflowing),
\* it fails with the invalid-character error carrying that character and its
\* zero-based position counted in characters.
C5_InvalidCharacter ==
  \A i \in DecodeCallsDone :
    LET str == done[i].call.value
        k == FirstInvalid(str)
    IN  k > 0 =>
          IF FitsU128(PositionalValue(SubSeq(str, 1, k - 1)))
          THEN done[i].ret = InvalidCharacterError(str[k], k - 1)
          ELSE IsOverflow(done[i].ret)

\* "mz" followed by U+20AC, '0' and U+00E9 has been refused for U+20AC at
\* position 2.
C5_Witness ==
  \E i \in DecodeCallsDone :
    /\ done[i].call.value = <<109, 122, 8364, 48, 233>>
    /\ done[i].ret = InvalidCharacterError(8364, 2)

\* The alphabet as the specification describes it
AlphabetWellFormed ==
  /\ Len(ALPHABET) = 57
  /\ \A i, j \in 1..Len(ALPHABET) : i # j => ALPHABET[i] # ALPHABET[j]
  /\ \A i \in 1..Len(ALPHABET) : ALPHABET[i] >= 32 /\ ALPHABET[i] <= 126
  /\ \A i \in 1..Len(ALPHABET) : ALPHABET[i] \notin {48, 79, 49, 73, 108}
  /\ \A i \in 1..(Len(ALPHABET) - 1) : ALPHABET[i] < ALPHABET[i + 1]

\* The table that maps a byte of the alphabet to its index and every other
\* byte to the sentinel 0xFF
ExpectedTable ==
  [b \in 0..255 |-> IF InAlphabet(b) THEN DigitValue(b) ELSE 255]

\* C8: alphabet invariant.  The alphabet has 57 characters, all distinct,
\* all printable ASCII, none of '0' 'O' '1' 'I' 'l', strictly increasing in
\* ASCII code; the decode table, at every moment, maps a byte to i exactly
\* when the alphabet has that byte at index i, and every other byte of 0..255
\* to the invalid sentinel.
C8_AlphabetInvariant ==
  /\ AlphabetWellFormed
  /\ DECODE_TABLE = ExpectedTable

\* "2z", looked up at the first and the last entry of the table, has been
\* decoded to 56.
C8_Witness ==
  \E i \in DecodeCallsDone :
    /\ done[i].call.value = <<50, 122>>
    /\ done[i].ret = Ok(U128From(56))

-----------------------------------------------------------------------------
(* Properties of the generator                                             *)

\* A Python int in 0..2^128-1
InU128Range(v) ==
  /\ ~v.neg
  /\ \A k \in 1..(Len(v.mag) - U128Limbs) : v.mag[k] = 0

\* The timestamp and the payload a generate call that returned an
\* identifier has encoded
TsValue(i) == extract_timestamp(done[i].call.timestamp, done[i].clock).val

PayloadValue(i) == extract_uuid(done[i].call.uuid, done[i].rnd).val

TsSupplied(i) == done[i].call.timestamp.some

FitsTimestampWidth(t) == U128Less(t, V_57p11)

\* C2 as stated: every identifier returned for a supplied timestamp, however
\* large, has exactly 33 characters.
C2_FixedWidthAnyTimestamp ==
  \A i \in GenerateCallsDone :
    (TsSupplied(i) /\ IsOk(done[i].ret)) => Len(done[i].ret.val) = 33

\* C2, amended: for a supplied timestamp in 0..2^128-1 and an integer payload
\* in 0..2^128-1 generate_id57 returns an identifier; an identifier returned
\* for a supplied timestamp below 57^11 has exactly 33 characters, and one
\* returned for a supplied timestamp of 57^11 or more has more than 33.
C2_FixedWidth ==
  \A i \in GenerateCallsDone :
    /\ ( /\ TsSupplied(i)
         /\ InU128Range(done[i].call.timestamp.v)
         /\ done[i].call.uuid.some
         /\ done[i].call.uuid.v.is_long
         /\ InU128Range(done[i].call.uuid.v.value) ) => IsOk(done[i].ret)
    /\ (TsSupplied(i) /\ IsOk(done[i].ret)) =>
         IF FitsTimestampWidth(TsValue(i))
         THEN Len(done[i].ret.val) = 33
         ELSE Len(done[i].ret.val) > 33

\* generate_id57(0, 0) has returned 33 zero digits.
C2_Witness ==
  \E i \in GenerateCallsDone :
    /\ done[i].call.timestamp = Some(PyInt(FALSE, V_0))
    /\ done[i].call.uuid = Some(PyLong(PyInt(FALSE, V_0)))
    /\ done[i].ret = Ok(Repeat(ZeroDigit, 33))

\* C3: monotonic ordering.  Of two identifiers returned, the one made from
\* the smaller timestamp is the smaller string in byte-wise lexicographic
\* order, whatever the two payloads, when both timestamps are below 57^11.
C3_MonotonicOrdering ==
  \A i, j \in GenerateCallsDone :
    ( /\ IsOk(done[i].ret)
      /\ IsOk(done[j].ret)
      /\ U128Less(TsValue(i), TsValue(j))
      /\ FitsTimestampWidth(TsValue(j)) ) =>
        StrLess(done[i].ret.val, done[j].ret.val)

\* Two identifiers have been returned, the first for timestamp 0 and payload
\* 2^128 - 1, the second for timestamp 1 and payload 0.
C3_Witness ==
  /\ Len(done) = 2
  /\ done[1].call.timestamp = Some(PyInt(FALSE, V_0))
  /\ done[1].call.uuid = Some(PyLong(PyInt(FALSE, V_2p128m1)))
  /\ done[2].call.timestamp = Some(PyInt(FALSE, V_1))
  /\ done[2].call.uuid = Some(PyLong(PyInt(FALSE, V_0)))
  /\ IsOk(done[1].ret)
  /\ IsOk(done[2].ret)

NegativeTimestamp(i) ==
  done[i].call.timestamp.some /\ done[i].call.timestamp.v.neg

NegativeIntPayload(i) ==
  /\ done[i].call.uuid.some
  /\ done[i].call.uuid.v.is_long
  /\ done[i].call.uuid.v.value.neg

\* The timestamp of the call was obtained without error: supplied and in
\* 0..2^128-1, or read from a clock that answered.
TimestampObtained(i) ==
  IF done[i].call.timestamp.some
  THEN InU128Range(done[i].call.timestamp.v)
  ELSE done[i].clock.ok

\* C9 as stated: a negative value given to base57_encode, and a negative
\* supplied timestamp or a negative supplied integer payload given to
\* generate_id57, always fail with the negative-value error.
C9_NegativeAlwaysNegativeValue ==
  /\ \A i \in EncodeCallsDone :
       done[i].call.value.neg => IsNegativeValue(done[i].ret)
  /\ \A i \in GenerateCallsDone :
       (NegativeTimestamp(i) \/ NegativeIntPayload(i)) => IsNegativeValue(done[i].ret)

\* C9, amended: base57_encode of a negative value fails with the
\* negative-value error for every pad_to; generate_id57 with a negative
\* supplied timestamp fails with the negative-value error; generate_id57 with
\* a negative supplied integer payload returns no string: it fails with the
\* negative-value error whenever the timestamp was obtained without error,
\* and with the timestamp's error otherwise.
C9_NegativeRejected ==
  /\ \A i \in EncodeCallsDone :
       done[i].call.value.neg => IsNegativeValue(done[i].ret)
  /\ \A i \in GenerateCallsDone :
       /\ NegativeTimestamp(i) =>
            done[i].ret = PyValueError("timestamp must be non-negative")
       /\ NegativeIntPayload(i) =>
            /\ ~IsOk(done[i].ret)
            /\ TimestampObtained(i) =>
                 done[i].ret = PyValueError("uuid must be non-negative")
            /\ ~TimestampObtained(i) =>
                 done[i].ret \in { PyValueError("timestamp must be non-negative"),
                                   PyOverflowError, PyRuntimeError }

\* generate_id57 with the current time and the payload -1 has failed with
\* the negative-value error.
C9_Witness ==
  \E i \in GenerateCallsDone :
    /\ done[i].call.timestamp = Some(PyInt(FALSE, V_Now))
    /\ done[i].call.uuid = Some(PyLong(PyInt(TRUE, V_1)))
    /\ IsNegativeValue(done[i].ret)

\* C10: identifier decomposition.  Every payload has at most 22 digits and
\* the last 22 characters of every identifier decode to the payload; when the
\* timestamp is below 57^11 the identifier has 33 characters, of which the
\* first 11 decode to the timestamp and the other 22 to the payload.
C10_Decomposition ==
  \A i \in GenerateCallsDone :
    IsOk(done[i].ret) =>
      LET id == done[i].ret.val
      IN  /\ Len(encode_base57_raw(PayloadValue(i))) <= 22
          /\ Len(id) >= 33
          /\ decode_base57(SubSeq(id, Len(id) - 21, Len(id))) = Ok(PayloadValue(i))
          /\ FitsTimestampWidth(TsValue(i)) =>
               /\ Len(id) = 33
               /\ decode_base57(SubSeq(id, 1, 11)) = Ok(TsValue(i))
               /\ SubSeq(id, 12, 33) = SubSeq(id, Len(id) - 21, Len(id))

\* The identifier of timestamp 57^11 - 1 and the 22-digit payload
\* ffffffff-ffff-4fff-bfff-ffffffffffff, given as an object with __int__, has
\* been returned: eleven 'z' and the payload's digits.
C10_Witness ==
  \E i \in GenerateCallsDone :
    /\ done[i].call.timestamp = Some(PyInt(FALSE, V_57p11m1))
    /\ done[i].call.uuid = Some(IntLike(PyInt(FALSE, V_UuidHigh)))
    /\ IsOk(done[i].ret)
    /\ SubSeq(done[i].ret.val, 1, 11) = Repeat(122, 11)
    /\ Len(done[i].ret.val) = 33

====
